---- MODULE Spec2Model ----
(***************************************************************************)
(* pinger: the address resolver (helpers.AddrResolution / HostToAddr), the *)
(* command's Run function, the ICMP4Handler / ICMP6Handler probe loops,    *)
(* the statistics (PingStats) and the signal goroutine that prints the     *)
(* statistics and exits on an interrupt.                                   *)
(***************************************************************************)
EXTENDS Integers, Sequences, FiniteSets, TLC

(***************************************************************************)
(* Bounds of the model                                                     *)
(***************************************************************************)
\* largest value of the -c flag that is explored
MaxCnt == 2
\* datagrams the socket's receive buffer holds at once
MaxBuf == 1
\* datagrams that are not answers to this run's requests, per run
MaxStray == 1

(***************************************************************************)
(* Program constants                                                       *)
(***************************************************************************)
protocolICMP == 1
protocolICMPv6 == 58

\* the "no value" results of the library calls
nil == <<>>
NaN == <<0, 0>>

(***************************************************************************)
(* package net: IP addresses are byte sequences                            *)
(***************************************************************************)
v4InV6Prefix == <<0, 0, 0, 0, 0, 0, 0, 0, 0, 0, 255, 255>>

\* net.IPv4(a, b, c, d): the 16-byte form of an IPv4 address
IPv4(a, b, c, d) == v4InV6Prefix \o <<a, b, c, d>>

\* net.ParseIP on the host arguments and DNS answers the model draws from:
\* a dotted-decimal literal parses to its 16-byte v4-in-v6 form, a
\* colon-delimited literal to its 16 bytes, anything else to nil
ParseIP(s) ==
  CASE s = "192.0.2.1" -> IPv4(192, 0, 2, 1)
    [] s = "::ffff:192.0.2.1" -> IPv4(192, 0, 2, 1)
    [] s = "2001:db8::1" -> <<32, 1, 13, 184, 0, 0, 0, 0, 0, 0, 0, 0, 0, 0, 0, 1>>
    [] s = "::1" -> <<0, 0, 0, 0, 0, 0, 0, 0, 0, 0, 0, 0, 0, 0, 0, 1>>
    [] OTHER -> nil

\* net.IP.To4: the 4-byte form, or nil when ip is not an IPv4 address
To4(ip) ==
  IF Len(ip) = 4 THEN ip
  ELSE IF Len(ip) = 16 /\ SubSeq(ip, 1, 12) = v4InV6Prefix
       THEN SubSeq(ip, 13, 16)
       ELSE nil

\* net.IP.To16: the 16-byte form, or nil when ip has neither length
To16(ip) ==
  IF Len(ip) = 4 THEN IPv4(ip[1], ip[2], ip[3], ip[4])
  ELSE IF Len(ip) = 16 THEN ip
       ELSE nil

\* valIPv6 returns (bool, error); err is TRUE when an error is returned
valIPv6(addr) ==
  LET ip == ParseIP(addr) IN
    IF ip = nil THEN [ok |-> FALSE, err |-> TRUE]
    ELSE IF To16(ip) # nil THEN [ok |-> TRUE, err |-> FALSE]
         ELSE [ok |-> FALSE, err |-> FALSE]

valIPv4(addr) ==
  LET ip == ParseIP(addr) IN
    IF ip = nil THEN [ok |-> FALSE, err |-> TRUE]
    ELSE IF To4(ip) # nil THEN [ok |-> TRUE, err |-> FALSE]
         ELSE [ok |-> FALSE, err |-> FALSE]

\* validateHostname: the regular expression wants a last label of letters
\* only, labels of letters, digits and inner hyphens, and no ".."
validateHostname(host) ==
  CASE host = "nitk.ac.in" -> TRUE
    [] OTHER -> FALSE

\* the host arguments of the command line
Hosts == {"nitk.ac.in", "192.0.2.1", "2001:db8::1", "::1",
          "::ffff:192.0.2.1", "192.0.2.999"}

\* the -4 / -6 flags
AddrOptions == [V4 : BOOLEAN, V6 : BOOLEAN]

\* the addresses the resolver may answer with
DnsAddrs == {"192.0.2.1", "2001:db8::1"}

\* net.LookupHost was not called
NoLookup == [called |-> FALSE, err |-> FALSE, ips |-> <<>>]

\* net.LookupHost: an error, or a list of distinct addresses
LookupResults ==
  {[called |-> TRUE, err |-> TRUE, ips |-> <<>>]} \cup
  {[called |-> TRUE, err |-> FALSE, ips |-> l] :
     l \in {<<>>} \cup {<<a>> : a \in DnsAddrs}
           \cup {<<a, b>> : <<a, b>> \in {p \in DnsAddrs \X DnsAddrs : p[1] # p[2]}}}

\* UnMarshalledAddr and its setter; the zero value is {"", false}
UnMarshalledAddr(addr, isIPv6) == [Addr |-> addr, IsIPv6 |-> isIPv6]
ZeroAddr == UnMarshalledAddr("", FALSE)

\* the result (UnMarshalledAddr, error) of the resolver functions
Result(addr, err) == [addr |-> addr, err |-> err]

\* the range loop of HostToAddr, from index k of the list
RECURSIVE HostToAddrLoop(_, _, _, _)
HostToAddrLoop(host, options, listOfIPs, k) ==
  IF k > Len(listOfIPs) THEN Result(ZeroAddr, TRUE)
  ELSE LET ip == listOfIPs[k] IN
    IF options.V4 /\ valIPv4(ip).ok THEN Result(UnMarshalledAddr(ip, FALSE), FALSE)
    ELSE IF options.V6 /\ valIPv6(ip).ok THEN Result(UnMarshalledAddr(ip, TRUE), FALSE)
    ELSE HostToAddrLoop(host, options, listOfIPs, k + 1)

\* HostToAddr, given what net.LookupHost answers
HostToAddr(host, options, lookup) ==
  IF options.V4 /\ options.V6 THEN Result(UnMarshalledAddr("", FALSE), TRUE)
  ELSE IF lookup.err THEN Result(ZeroAddr, TRUE)
  ELSE IF ~options.V4 /\ ~options.V6 /\ Len(lookup.ips) # 0
       THEN LET ip == lookup.ips[1] IN
              Result(UnMarshalledAddr(ip, valIPv6(ip).ok), FALSE)
  ELSE HostToAddrLoop(host, options, lookup.ips, 1)

\* the literal-address branch of AddrResolution
AddrLiteral(host, options) ==
  LET isIPv6 == valIPv6(host)
      isIPv4 == valIPv4(host)
  IN IF isIPv6.err THEN Result(ZeroAddr, TRUE)
     ELSE IF options.V6 /\ isIPv6.ok THEN Result(UnMarshalledAddr(host, TRUE), FALSE)
     ELSE IF isIPv4.err THEN Result(ZeroAddr, TRUE)
     ELSE IF isIPv4.ok THEN Result(UnMarshalledAddr(host, FALSE), FALSE)
     ELSE Result(ZeroAddr, TRUE)

AddrResolution(host, options, lookup) ==
  IF validateHostname(host) THEN HostToAddr(host, options, lookup)
  ELSE AddrLiteral(host, options)

(***************************************************************************)
(* PingStats.  A float that comes out of a division is kept exactly, as    *)
(* the reduced fraction <<numerator, denominator>>, or as NaN (0 / 0).     *)
(***************************************************************************)
RECURSIVE GCD(_, _)
GCD(a, b) == IF b = 0 THEN a ELSE GCD(b, a % b)

Abs(x) == IF x < 0 THEN -x ELSE x

\* a / b in float64: 0 / 0 is NaN
FloatDiv(a, b) ==
  IF b = 0 THEN NaN
  ELSE LET g == GCD(Abs(a), Abs(b)) IN <<a \div g, b \div g>>

\* PingStats{min: min}: every other field has its zero value
PingStats(min) ==
  [transmitted |-> 0, received |-> 0, errors |-> 0,
   min |-> min, max |-> 0, sum1 |-> 0, sum2 |-> 0,
   mean |-> <<0, 1>>, stddev |-> <<0, 1>>]

\* an iterativeStats that seeds min while received is still 0, which it
\* never is after stats.received++
iterativeStatsSeedBeforeCount(stats, time) ==
  LET s1 == IF stats.received = 0 THEN [stats EXCEPT !.min = time] ELSE stats
      s2 == IF time < s1.min THEN [s1 EXCEPT !.min = time] ELSE s1
      s3 == IF time > s2.max THEN [s2 EXCEPT !.max = time] ELSE s2
  IN [s3 EXCEPT !.sum1 = @ + time, !.sum2 = @ + time * time]

\* iterativeStats: min is set to the first round-trip time (received is 1
\* then), then min, max and the two sums are updated
iterativeStats(stats, time) ==
  LET s1 == IF stats.received = 1 THEN [stats EXCEPT !.min = time] ELSE stats
      s2 == IF time < s1.min THEN [s1 EXCEPT !.min = time] ELSE s1
      s3 == IF time > s2.max THEN [s2 EXCEPT !.max = time] ELSE s2
  IN [s3 EXCEPT !.sum1 = @ + time, !.sum2 = @ + time * time]

\* mean = S1 / n; stddev = sqrt(S2 / n - mean ^ 2): the field stddev holds
\* the fraction under the square root
finalStats(stats) ==
  LET n == stats.received IN
    [stats EXCEPT !.mean = FloatDiv(stats.sum1, n),
                  !.stddev = FloatDiv(n * stats.sum2 - stats.sum1 * stats.sum1, n * n)]

\* fmt's %.1f of a fraction that is not negative, in tenths: the nearest
\* tenth, a tie going to the even one; -1 stands for "NaN"
FormatTenths(f) ==
  IF f[2] = 0 THEN -1
  ELSE LET q == (10 * f[1]) \div f[2]
           r == (10 * f[1]) % f[2]
       IN IF 2 * r > f[2] THEN q + 1
          ELSE IF 2 * r < f[2] THEN q
          ELSE IF q % 2 = 0 THEN q ELSE q + 1

\* a drop percentage computed without the test of transmitted > 0
dropPercentageUnguarded(stats) ==
  FloatDiv((stats.transmitted - stats.received) * 100, stats.transmitted)

\* the drop percentage PrintStatistics prints
dropPercentage(stats) ==
  IF stats.transmitted > 0
  THEN FloatDiv((stats.transmitted - stats.received) * 100, stats.transmitted)
  ELSE <<0, 1>>

\* PrintStatistics: the statistics after the call, and the summary printed;
\* the round-trip line is printed only if received > 0
PrintStatistics(stats, by) ==
  LET after == IF stats.received > 0 THEN finalStats(stats) ELSE stats IN
    [stats |-> after,
     summary |-> [by |-> by,
                  transmitted |-> stats.transmitted,
                  received |-> stats.received,
                  errors |-> stats.errors,
                  loss |-> dropPercentage(stats),
                  lossTenths |-> FormatTenths(dropPercentage(stats)),
                  roundTrip |-> stats.received > 0,
                  min |-> after.min, mean |-> after.mean,
                  max |-> after.max, stddev |-> after.stddev]]

(***************************************************************************)
(* ICMP messages.  A datagram on the wire is its type byte, the echo       *)
(* identifier and sequence number of its body, and whether it is long      *)
(* enough to parse.                                                        *)
(***************************************************************************)
\* os.Getpid() & 0xffff of this process, and of another pinging process
OwnID == "pid"
OtherID == "other pid"

\* ipv4.ICMPType(n) and ipv6.ICMPType(n) are different types
ICMPType(proto, n) == <<proto, n>>
ipv4ICMPTypeEchoReply == ICMPType(protocolICMP, 0)
ipv4ICMPTypeDestinationUnreachable == ICMPType(protocolICMP, 3)
ipv4ICMPTypeEcho == ICMPType(protocolICMP, 8)
ipv4ICMPTypeTimeExceeded == ICMPType(protocolICMP, 11)
ipv6ICMPTypeDestinationUnreachable == ICMPType(protocolICMPv6, 1)
ipv6ICMPTypeTimeExceeded == ICMPType(protocolICMPv6, 3)
ipv6ICMPTypeEchoRequest == ICMPType(protocolICMPv6, 128)
ipv6ICMPTypeEchoReply == ICMPType(protocolICMPv6, 129)
ipv6ICMPTypeRouterSolicitation == ICMPType(protocolICMPv6, 133)
ipv6ICMPTypeRouterAdvertisement == ICMPType(protocolICMPv6, 134)
ipv6ICMPTypeNeighborSolicitation == ICMPType(protocolICMPv6, 135)
ipv6ICMPTypeNeighborAdvertisement == ICMPType(protocolICMPv6, 136)

Datagram(type, id, seq, short) == [type |-> type, id |-> id, seq |-> seq, short |-> short]

\* constructMarshalledMessage: the echo request for seqNum; Marshal writes
\* the 16 low bits of Seq
constructMarshalledMessage(msgType, seqNum) ==
  Datagram(msgType[2], OwnID, seqNum % 65536, FALSE)

\* the peer's answer to an echo request
EchoReplyTo(proto, request) ==
  Datagram(IF proto = protocolICMP THEN ipv4ICMPTypeEchoReply[2] ELSE ipv6ICMPTypeEchoReply[2],
           request.id, request.seq, FALSE)

\* icmp.ParseMessage: an error on a short message; echo types get an
\* *icmp.Echo body
ParseMessage(proto, data) ==
  LET t == ICMPType(proto, data.type) IN
    [err |-> data.short,
     Type |-> t,
     Body |-> IF t \in {ipv4ICMPTypeEcho, ipv4ICMPTypeEchoReply,
                        ipv6ICMPTypeEchoRequest, ipv6ICMPTypeEchoReply}
              THEN [echo |-> TRUE, ID |-> data.id, Seq |-> data.seq]
              ELSE [echo |-> FALSE, ID |-> "", Seq |-> 0]]

\* the branch printICMPResponse takes for the datagram read
Classify(proto, data) ==
  LET reply == ParseMessage(proto, data) IN
    IF reply.err THEN "ParseError"
    ELSE IF reply.Type \in {ipv4ICMPTypeEchoReply, ipv6ICMPTypeEchoReply}
      THEN IF reply.Body.echo THEN "Success" ELSE "InvalidEcho"
    ELSE IF reply.Type \in {ipv4ICMPTypeDestinationUnreachable,
                            ipv6ICMPTypeDestinationUnreachable}
      THEN "Unreachable"
    ELSE IF reply.Type \in {ipv4ICMPTypeTimeExceeded, ipv6ICMPTypeTimeExceeded}
      THEN "TimeExceeded"
    ELSE IF reply.Type \in {ipv6ICMPTypeNeighborAdvertisement,
                            ipv6ICMPTypeNeighborSolicitation,
                            ipv6ICMPTypeRouterAdvertisement,
                            ipv6ICMPTypeRouterSolicitation}
      THEN "InformationalV6"
    ELSE "Other"

\* stats.errors++
IncErrors(stats) == [stats EXCEPT !.errors = @ + 1]

\* a printReadError whose timeout branch falls through to the second
\* stats.errors++
printReadErrorFallsThrough(err, stats) ==
  IF err = "timeout" THEN IncErrors(IncErrors(stats)) ELSE IncErrors(stats)

\* printReadError: a timeout and any other read error both count one error
printReadError(err, stats) ==
  IF err = "timeout" THEN IncErrors(stats) ELSE IncErrors(stats)

\* a printICMPResponse whose discovery-message branch counts an error
printICMPResponseCountInfoAsError(kind, stats) ==
  CASE kind = "Success" -> [stats EXCEPT !.received = @ + 1]
    [] OTHER -> IncErrors(stats)

\* the statistics after the first statement of the branch taken by
\* printICMPResponse (for an echo reply: stats.received++)
printICMPResponseCount(kind, stats) ==
  CASE kind = "Success" -> [stats EXCEPT !.received = @ + 1]
    [] kind = "InformationalV6" -> stats
    [] OTHER -> IncErrors(stats)

\* the lines printReadError prints: "Request timeout for icmp_seq" or
\* "Error reading ICMP response"
printReadErrorLines(err) ==
  IF err = "timeout" THEN 1 ELSE 1

\* a printICMPResponse that prints nothing for the IPv6 discovery messages
printICMPResponseLinesSilentInfo(kind) ==
  IF kind = "InformationalV6" THEN 0 ELSE 1

\* the lines the branch of printICMPResponse prints: one Printf each
printICMPResponseLines(kind) ==
  CASE kind = "ParseError" -> 1
    [] kind = "InvalidEcho" -> 1
    [] kind = "Success" -> 1
    [] kind = "Unreachable" -> 1
    [] kind = "TimeExceeded" -> 1
    [] kind = "InformationalV6" -> 1
    [] OTHER -> 1

\* datagrams that reach the socket without answering this run's requests:
\* another process's echo reply, an unreachable or time-exceeded report, an
\* echo request, a truncated message, and a message whose type byte is 136:
\* a neighbor advertisement on IPv6, an unassigned type on IPv4
Strays(proto) ==
  IF proto = protocolICMP
  THEN {Datagram(0, OtherID, 0, FALSE), Datagram(3, "", 0, FALSE),
        Datagram(11, "", 0, FALSE), Datagram(8, OtherID, 0, FALSE),
        Datagram(0, "", 0, TRUE), Datagram(136, "", 0, FALSE)}
  ELSE {Datagram(129, OtherID, 0, FALSE), Datagram(1, "", 0, FALSE),
        Datagram(3, "", 0, FALSE), Datagram(128, OtherID, 0, FALSE),
        Datagram(129, "", 0, TRUE), Datagram(136, "", 0, FALSE)}

\* round-trip times measured by recvICMPRequest, in milliseconds
Latencies == {10, 20}

\* values of the -c flag
Counts == -1 .. MaxCnt

(***************************************************************************)
(* State                                                                   *)
(***************************************************************************)
VARIABLES
  host,       \* args[0]
  options,    \* the -4 / -6 flags
  cntFlag,    \* the -c flag
  lookup,     \* what net.LookupHost answered
  verified,   \* the result of AddrResolution
  pc,         \* where the main goroutine is
  proto,      \* the handler's protocol, 0 before a handler is entered
  info,       \* ICMPInfo: IP and CNT
  i,          \* the loop variable: the sequence number
  stats,      \* PingStats
  conn,       \* the raw socket: "none", "open" or "closed"
  reply,      \* the datagram recvICMPRequest returned
  elapsedMs,  \* the round-trip time recvICMPRequest returned
  supPc,      \* where the signal goroutine is
  c,          \* signals waiting in the channel c (capacity 1)
  exited,     \* "no", or the exit code of the process: "0" or "1"
  wire,       \* requests sent whose answer has not reached the socket
  sockbuf,    \* datagrams in the socket's receive buffer
  strays,     \* stray datagrams that reached the socket so far
  sendLog,    \* the sequence numbers passed to sendICMPRequest, in order
  outcomes,   \* the outcome of each iteration, in order
  lines,      \* the per-probe lines printed so far
  summaries,  \* the summaries printed, in order
  finalized   \* the values of received at the calls of finalStats

vars == <<host, options, cntFlag, lookup, verified, pc, proto, info, i, stats,
          conn, reply, elapsedMs, supPc, c, exited, wire, sockbuf, strays,
          sendLog, outcomes, lines, summaries, finalized>>

resolverVars == <<host, options, cntFlag, lookup, verified>>
netVars == <<wire, sockbuf, strays>>
supVars == <<supPc, c>>

NoReply == Datagram(0, "", 0, TRUE)

\* nothing has run yet but the flag parsing
Fresh ==
  /\ i = 0
  /\ conn = "none"
  /\ reply = NoReply
  /\ elapsedMs = 0
  /\ supPc = "off"
  /\ c = 0
  /\ exited = "no"
  /\ wire = {}
  /\ sockbuf = <<>>
  /\ strays = 0
  /\ sendLog = <<>>
  /\ outcomes = <<>>
  /\ lines = 0
  /\ summaries = <<>>
  /\ finalized = {}

\* the command starts: rootCmd.Run with any host argument and flags
InitRun ==
  /\ host \in Hosts
  /\ options \in AddrOptions
  /\ cntFlag \in Counts
  /\ lookup = NoLookup
  /\ verified = Result(ZeroAddr, FALSE)
  /\ pc = "Run"
  /\ proto = 0
  /\ info = [IP |-> "", CNT |-> 0]
  /\ stats = PingStats(0)
  /\ Fresh

\* the command lines whose handler runs are explored in full:
\* "pinger -c n 192.0.2.1" and "pinger -c n -6 2001:db8::1"
HandlerRuns ==
  {[host |-> "192.0.2.1", options |-> [V4 |-> FALSE, V6 |-> FALSE]],
   [host |-> "2001:db8::1", options |-> [V4 |-> FALSE, V6 |-> TRUE]]}

Running == exited = "no"

\* ICMPInfo{IP, CNT}
ICMPInfo(ip, cnt) == [IP |-> ip, CNT |-> cnt]

\* the handler Run picks, by its protocol
HandlerProto(isIPv6) == IF ~isIPv6 THEN protocolICMP ELSE protocolICMPv6

\* stats := PingStats{} in ICMP4Handler, PingStats{min: -1} in ICMP6Handler
HandlerStats(isIPv6) == IF ~isIPv6 THEN PingStats(0) ELSE PingStats(-1)

\* a handler has just been entered by Run
InitHandler ==
  /\ \E run \in HandlerRuns :
       /\ host = run.host
       /\ options = run.options
       /\ lookup = NoLookup
       /\ verified = AddrResolution(run.host, run.options, NoLookup)
  /\ ~verified.err
  /\ cntFlag \in Counts
  /\ info = ICMPInfo(verified.addr.Addr, cntFlag)
  /\ proto = HandlerProto(verified.addr.IsIPv6)
  /\ stats = HandlerStats(verified.addr.IsIPv6)
  /\ pc = "getInterface"
  /\ Fresh

(***************************************************************************)
(* rootCmd.Run                                                             *)
(***************************************************************************)
\* net.LookupHost is reached only for a hostname without both flags
LookupAnswers ==
  IF validateHostname(host) /\ ~(options.V4 /\ options.V6)
  THEN LookupResults ELSE {NoLookup}

\* verified, err := helpers.AddrResolution(addr, addrOptions); exit 1 on err
RunAddrResolution ==
  /\ Running /\ pc = "Run"
  /\ \E l \in LookupAnswers :
       LET r == AddrResolution(host, options, l) IN
         /\ lookup' = l
         /\ verified' = r
         /\ IF r.err THEN pc' = "exit" /\ exited' = "1"
                     ELSE pc' = "Dispatch" /\ exited' = exited
  /\ UNCHANGED <<host, options, cntFlag, proto, info, i, stats, conn, reply,
                 elapsedMs, supVars, netVars, sendLog, outcomes, lines, summaries,
                 finalized>>

\* if !isIPv6 { ICMP4Handler(icmpInfo) } else { ICMP6Handler(icmpInfo) };
\* the handler starts with its PingStats (min: -1 in ICMP6Handler)
RunDispatch ==
  /\ Running /\ pc = "Dispatch"
  /\ info' = ICMPInfo(verified.addr.Addr, cntFlag)
  /\ proto' = HandlerProto(verified.addr.IsIPv6)
  /\ stats' = HandlerStats(verified.addr.IsIPv6)
  /\ pc' = "getInterface"
  /\ UNCHANGED <<resolverVars, i, conn, reply, elapsedMs, supVars, exited,
                 netVars, sendLog, outcomes, lines, summaries, finalized>>

(***************************************************************************)
(* ICMP4Handler / ICMP6Handler: the two differ in proto and the initial    *)
(* min only                                                                *)
(***************************************************************************)
\* getInterface: exit 1 when the named interface does not exist
HandlerGetInterface ==
  /\ Running /\ pc = "getInterface"
  /\ \E found \in BOOLEAN :
       IF found THEN pc' = "Notify" /\ exited' = exited
                ELSE pc' = "exit" /\ exited' = "1"
  /\ UNCHANGED <<resolverVars, proto, info, i, stats, conn, reply, elapsedMs,
                 supVars, netVars, sendLog, outcomes, lines, summaries, finalized>>

\* signal.Notify(c, ...); go func() { <-c ... }()
HandlerNotify ==
  /\ Running /\ pc = "Notify"
  /\ supPc' = "waiting"
  /\ pc' = "ListenPacket"
  /\ UNCHANGED <<resolverVars, proto, info, i, stats, conn, reply, elapsedMs,
                 c, exited, netVars, sendLog, outcomes, lines, summaries, finalized>>

\* conn, err := icmp.ListenPacket(...); exit 1 on err; defer conn.Close()
HandlerListenPacket ==
  /\ Running /\ pc = "ListenPacket"
  /\ \E ok \in BOOLEAN :
       IF ok THEN pc' = "Loop" /\ conn' = "open" /\ exited' = exited
             ELSE pc' = "exit" /\ conn' = conn /\ exited' = "1"
  /\ UNCHANGED <<resolverVars, proto, info, i, stats, reply, elapsedMs,
                 supVars, netVars, sendLog, outcomes, lines, summaries, finalized>>

\* a range loop that runs once more: k <= n
RangeHasNextInclusive(k, n) == k <= n

\* for i := range n: there is an iteration for k when k < n (none at all
\* when n <= 0)
RangeHasNext(k, n) == k < n

\* for i := range info.CNT { stats.transmitted++ ...
LoopNext ==
  /\ Running /\ pc = "Loop" /\ RangeHasNext(i, info.CNT)
  /\ stats' = [stats EXCEPT !.transmitted = @ + 1]
  /\ pc' = "Marshal"
  /\ UNCHANGED <<resolverVars, proto, info, i, conn, reply, elapsedMs,
                 supVars, exited, netVars, sendLog, outcomes, lines, summaries,
                 finalized>>

\* the loop is over: stats.finalStats()
LoopEnd ==
  /\ Running /\ pc = "Loop" /\ ~RangeHasNext(i, info.CNT)
  /\ finalized' = finalized \cup {stats.received}
  /\ stats' = finalStats(stats)
  /\ pc' = "PrintStatistics"
  /\ UNCHANGED <<resolverVars, proto, info, i, conn, reply, elapsedMs,
                 supVars, exited, netVars, sendLog, outcomes, lines, summaries>>

\* what the history keeps of an iteration: its sequence number, whether it
\* was counted as received ("Success"), as an error ("Error") or as
\* neither ("InformationalV6"), and for a Success the echo reply and its time
Outcome(seq, kind, data, time) ==
  [seq |-> seq,
   kind |-> IF kind \in {"Success", "InformationalV6"} THEN kind ELSE "Error",
   data |-> IF kind = "Success" THEN data ELSE NoReply,
   time |-> IF kind = "Success" THEN time ELSE 0]

\* a "continue" that prints its line and forgets stats.errors++
ContinueUncounted(kind) ==
  /\ stats' = stats
  /\ outcomes' = Append(outcomes, Outcome(i, kind, NoReply, 0))
  /\ lines' = lines + 1
  /\ i' = i + 1
  /\ pc' = "Loop"

\* an iteration that ends with "continue": one line ("Error generating ICMP
\* message" or "Error sending ICMP packet"), errors++, no sleep
Continue(kind) ==
  /\ stats' = IncErrors(stats)
  /\ outcomes' = Append(outcomes, Outcome(i, kind, NoReply, 0))
  /\ lines' = lines + 1
  /\ i' = i + 1
  /\ pc' = "Loop"

\* request, err := constructMarshalledMessage(...); on err errors++, continue
LoopMarshal ==
  /\ Running /\ pc = "Marshal"
  /\ \E ok \in BOOLEAN :
       IF ok THEN /\ pc' = "Send"
                  /\ UNCHANGED <<stats, outcomes, lines, i>>
             ELSE Continue("MarshalError")
  /\ UNCHANGED <<resolverVars, proto, info, conn, reply, elapsedMs, supVars,
                 exited, netVars, sendLog, summaries, finalized>>

\* a loop that counts a failed send and reads all the same: no continue
LoopSendReadsAfterFailure ==
  /\ Running /\ pc = "Send"
  /\ sendLog' = Append(sendLog, constructMarshalledMessage(
       IF proto = protocolICMP THEN ipv4ICMPTypeEcho ELSE ipv6ICMPTypeEchoRequest,
       i).seq)
  /\ \E ok \in BOOLEAN :
       IF ok THEN /\ wire' = wire \cup {i}
                  /\ UNCHANGED <<stats, lines>>
             ELSE /\ stats' = IncErrors(stats)
                  /\ lines' = lines + 1
                  /\ wire' = wire
  /\ pc' = "Recv"
  /\ UNCHANGED <<resolverVars, proto, info, i, conn, reply, elapsedMs, supVars,
                 exited, sockbuf, strays, outcomes, summaries, finalized>>

\* a loop that sends and goes on to the next iteration without reading
LoopSendNoWait ==
  /\ Running /\ pc = "Send"
  /\ sendLog' = Append(sendLog, constructMarshalledMessage(
       IF proto = protocolICMP THEN ipv4ICMPTypeEcho ELSE ipv6ICMPTypeEchoRequest,
       i).seq)
  /\ \E ok \in BOOLEAN :
       IF ok THEN /\ wire' = wire \cup {i}
                  /\ pc' = "Loop"
                  /\ i' = i + 1
                  /\ UNCHANGED <<stats, outcomes, lines>>
             ELSE /\ Continue("SendError")
                  /\ wire' = wire
  /\ UNCHANGED <<resolverVars, proto, info, conn, reply, elapsedMs, supVars,
                 exited, sockbuf, strays, summaries, finalized>>

\* conn.SetReadDeadline(...); sendICMPRequest(...); on err errors++, continue
LoopSend ==
  /\ Running /\ pc = "Send"
  /\ sendLog' = Append(sendLog, constructMarshalledMessage(
       IF proto = protocolICMP THEN ipv4ICMPTypeEcho ELSE ipv6ICMPTypeEchoRequest,
       i).seq)
  /\ \E ok \in BOOLEAN :
       IF ok THEN /\ wire' = wire \cup {i}
                  /\ pc' = "Recv"
                  /\ UNCHANGED <<stats, outcomes, lines, i>>
             ELSE /\ Continue("SendError")
                  /\ wire' = wire
  /\ UNCHANGED <<resolverVars, proto, info, conn, reply, elapsedMs, supVars,
                 exited, sockbuf, strays, summaries, finalized>>

\* recvICMPRequest returns the first datagram of the socket
LoopRecv ==
  /\ Running /\ pc = "Recv"
  /\ sockbuf # <<>>
  /\ reply' = Head(sockbuf)
  /\ sockbuf' = Tail(sockbuf)
  /\ \E t \in Latencies : elapsedMs' = t
  /\ pc' = "printICMPResponse"
  /\ UNCHANGED <<resolverVars, proto, info, i, stats, conn, supVars, exited,
                 wire, strays, sendLog, outcomes, lines, summaries, finalized>>

\* the errors of a read on a socket that has no read deadline and is not
\* closed: none, it returns when a datagram has come
ReadErrorsWithoutDeadline == {}

\* the errors ReadFrom can return after conn.SetReadDeadline: the deadline
\* has passed, or the read itself has failed
ReadErrors == {"timeout", "read error"}

\* a loop that tries the same sequence number again when its read fails
LoopRecvErrorRetry ==
  /\ Running /\ pc = "Recv"
  /\ \E err \in ReadErrors :
       /\ err = "timeout" => sockbuf = <<>>
       /\ stats' = printReadError(err, stats)
       /\ lines' = lines + printReadErrorLines(err)
       /\ outcomes' = Append(outcomes,
            Outcome(i, IF err = "timeout" THEN "Timeout" ELSE "ReadError", NoReply, 0))
  /\ i' = i
  /\ pc' = "Send"
  /\ UNCHANGED <<resolverVars, proto, info, conn, reply, elapsedMs, supVars,
                 exited, netVars, sendLog, summaries, finalized>>

\* recvICMPRequest returns an error: the deadline passed with nothing to
\* read, or the read failed; printReadError, continue
LoopRecvError ==
  /\ Running /\ pc = "Recv"
  /\ \E err \in ReadErrors :
       /\ err = "timeout" => sockbuf = <<>>
       /\ stats' = printReadError(err, stats)
       /\ lines' = lines + printReadErrorLines(err)
       /\ outcomes' = Append(outcomes,
            Outcome(i, IF err = "timeout" THEN "Timeout" ELSE "ReadError", NoReply, 0))
  /\ i' = i + 1
  /\ pc' = "Loop"
  /\ UNCHANGED <<resolverVars, proto, info, conn, reply, elapsedMs, supVars,
                 exited, netVars, sendLog, summaries, finalized>>

\* printICMPResponse up to the counter of the branch taken; for an echo
\* reply iterativeStats is still to come
LoopPrintICMPResponse ==
  /\ Running /\ pc = "printICMPResponse"
  /\ LET kind == Classify(proto, reply) IN
       /\ stats' = printICMPResponseCount(kind, stats)
       /\ IF kind = "Success"
          THEN pc' = "iterativeStats" /\ outcomes' = outcomes /\ lines' = lines
          ELSE /\ pc' = "Sleep"
               /\ outcomes' = Append(outcomes, Outcome(i, kind, reply, elapsedMs))
               /\ lines' = lines + printICMPResponseLines(kind)
  /\ UNCHANGED <<resolverVars, proto, info, i, conn, reply, elapsedMs,
                 supVars, exited, netVars, sendLog, summaries, finalized>>

\* stats.iterativeStats(elapsedMs) and the line of the echo reply
LoopIterativeStats ==
  /\ Running /\ pc = "iterativeStats"
  /\ stats' = iterativeStats(stats, elapsedMs)
  /\ outcomes' = Append(outcomes, Outcome(i, "Success", reply, elapsedMs))
  /\ lines' = lines + printICMPResponseLines("Success")
  /\ pc' = "Sleep"
  /\ UNCHANGED <<resolverVars, proto, info, i, conn, reply, elapsedMs,
                 supVars, exited, netVars, sendLog, summaries, finalized>>

\* time.Sleep(time.Second), then the next iteration; reply and elapsedMs
\* are variables of the loop body
LoopSleep ==
  /\ Running /\ pc = "Sleep"
  /\ i' = i + 1
  /\ reply' = NoReply
  /\ elapsedMs' = 0
  /\ pc' = "Loop"
  /\ UNCHANGED <<resolverVars, proto, info, stats, conn, supVars, exited,
                 netVars, sendLog, outcomes, lines, summaries, finalized>>

\* PrintStatistics(&stats) after the loop
HandlerPrintStatistics ==
  /\ Running /\ pc = "PrintStatistics"
  /\ LET p == PrintStatistics(stats, "loop") IN
       /\ stats' = p.stats
       /\ summaries' = Append(summaries, p.summary)
       /\ finalized' = finalized \cup
            (IF stats.received > 0 THEN {stats.received} ELSE {})
  /\ pc' = "Return"
  /\ UNCHANGED <<resolverVars, proto, info, i, conn, reply, elapsedMs,
                 supVars, exited, netVars, sendLog, outcomes, lines>>

\* the handler returns: the deferred conn.Close() runs, Run and main
\* return, the process exits with 0
HandlerReturn ==
  /\ Running /\ pc = "Return"
  /\ conn' = "closed"
  /\ pc' = "exit"
  /\ exited' = "0"
  /\ UNCHANGED <<resolverVars, proto, info, i, stats, reply, elapsedMs,
                 supVars, netVars, sendLog, outcomes, lines, summaries, finalized>>

(***************************************************************************)
(* The signal goroutine of the handler                                     *)
(***************************************************************************)
\* an interrupt (or SIGTERM) is delivered to the channel
Interrupt ==
  /\ Running /\ supPc = "waiting" /\ c = 0
  /\ c' = 1
  /\ UNCHANGED <<resolverVars, pc, proto, info, i, stats, conn, reply,
                 elapsedMs, supPc, exited, netVars, sendLog, outcomes, lines,
                 summaries, finalized>>

\* <-c
SupReceive ==
  /\ Running /\ supPc = "waiting" /\ c > 0
  /\ c' = c - 1
  /\ supPc' = "finalStats"
  /\ UNCHANGED <<resolverVars, pc, proto, info, i, stats, conn, reply,
                 elapsedMs, exited, netVars, sendLog, outcomes, lines, summaries,
                 finalized>>

\* stats.finalStats()
SupFinalStats ==
  /\ Running /\ supPc = "finalStats"
  /\ finalized' = finalized \cup {stats.received}
  /\ stats' = finalStats(stats)
  /\ supPc' = "PrintStatistics"
  /\ UNCHANGED <<resolverVars, pc, proto, info, i, conn, reply, elapsedMs,
                 c, exited, netVars, sendLog, outcomes, lines, summaries>>

\* PrintStatistics(&stats)
SupPrintStatistics ==
  /\ Running /\ supPc = "PrintStatistics"
  /\ LET p == PrintStatistics(stats, "signal") IN
       /\ stats' = p.stats
       /\ summaries' = Append(summaries, p.summary)
       /\ finalized' = finalized \cup
            (IF stats.received > 0 THEN {stats.received} ELSE {})
  /\ supPc' = "Exit"
  /\ UNCHANGED <<resolverVars, pc, proto, info, i, conn, reply, elapsedMs,
                 c, exited, netVars, sendLog, outcomes, lines>>

\* os.Exit(0): the process ends at once, deferred calls do not run
SupExit ==
  /\ Running /\ supPc = "Exit"
  /\ supPc' = "exit"
  /\ exited' = "0"
  /\ UNCHANGED <<resolverVars, pc, proto, info, i, stats, conn, reply,
                 elapsedMs, c, netVars, sendLog, outcomes, lines, summaries,
                 finalized>>

(***************************************************************************)
(* The network                                                             *)
(***************************************************************************)
\* the answer to an earlier request reaches the socket, however late
NetReply ==
  /\ Running /\ conn = "open" /\ Len(sockbuf) < MaxBuf
  /\ \E s \in wire :
       /\ wire' = wire \ {s}
       /\ sockbuf' = Append(sockbuf,
            EchoReplyTo(proto, constructMarshalledMessage(
              IF proto = protocolICMP THEN ipv4ICMPTypeEcho ELSE ipv6ICMPTypeEchoRequest, s)))
  /\ UNCHANGED <<resolverVars, pc, proto, info, i, stats, conn, reply,
                 elapsedMs, supVars, exited, strays, sendLog, outcomes, lines,
                 summaries, finalized>>

\* a datagram that answers none of this run's requests reaches the socket
NetStray ==
  /\ Running /\ conn = "open" /\ Len(sockbuf) < MaxBuf /\ strays < MaxStray
  /\ \E d \in Strays(proto) : sockbuf' = Append(sockbuf, d)
  /\ strays' = strays + 1
  /\ UNCHANGED <<resolverVars, pc, proto, info, i, stats, conn, reply,
                 elapsedMs, supVars, exited, wire, sendLog, outcomes, lines,
                 summaries, finalized>>

Next ==
  \/ HandlerGetInterface \/ HandlerNotify \/ HandlerListenPacket
  \/ LoopNext \/ LoopEnd \/ LoopMarshal \/ LoopSend \/ LoopRecv
  \/ LoopRecvError \/ LoopPrintICMPResponse \/ LoopIterativeStats
  \/ LoopSleep \/ HandlerPrintStatistics \/ HandlerReturn
  \/ Interrupt \/ SupReceive \/ SupFinalStats \/ SupPrintStatistics \/ SupExit
  \/ NetReply \/ NetStray

\* the handlers: the probe loop, the signal goroutine and the network
Spec == InitHandler /\ [][Next]_vars

\* the steps of the main goroutine in a handler
MainStep ==
  \/ HandlerGetInterface \/ HandlerNotify \/ HandlerListenPacket
  \/ LoopNext \/ LoopEnd \/ LoopMarshal \/ LoopSend \/ LoopRecv
  \/ LoopRecvError \/ LoopPrintICMPResponse \/ LoopIterativeStats
  \/ LoopSleep \/ HandlerPrintStatistics \/ HandlerReturn

\* a run in which no signal is delivered
NextLive == MainStep \/ NetReply \/ NetStray

\* the main goroutine is never blocked but in ReadFrom, which returns when a
\* datagram is there or the deadline has passed, and in time.Sleep, which
\* returns: whenever it has a step to take it takes one. Nothing is assumed
\* of the network.
SpecLive == InitHandler /\ [][NextLive]_vars /\ WF_vars(MainStep)

\* the command up to the start of the probe loop
NextRun ==
  \/ RunAddrResolution \/ RunDispatch
  \/ HandlerGetInterface \/ HandlerNotify \/ HandlerListenPacket
  \/ Interrupt \/ SupReceive \/ SupFinalStats \/ SupPrintStatistics \/ SupExit

SpecRun == InitRun /\ [][NextRun]_vars

(***************************************************************************)
(* Properties                                                              *)
(***************************************************************************)
\* the outcomes of the history that were counted as received
Successes == {k \in DOMAIN outcomes : outcomes[k].kind = "Success"}

\* the signal goroutine has received the interrupt and not yet exited
SupHandling == supPc \in {"finalStats", "PrintStatistics", "Exit"}

\* an address string is an IPv4 address (To4 succeeds), or an IPv6 address
\* (it parses and To4 fails)
IsIPv4Address(a) == ParseIP(a) # nil /\ To4(ParseIP(a)) # nil
IsIPv6Address(a) == ParseIP(a) # nil /\ To4(ParseIP(a)) = nil

Resolved == pc # "Run"
BothFlags == options.V4 /\ options.V6
NoFlags == ~options.V4 /\ ~options.V6

\* C1: in every state of a run, and in every summary printed,
\* received + errors <= transmitted
C1_ReceivedPlusErrorsAtMostTransmitted ==
  /\ stats.received + stats.errors <= stats.transmitted
  /\ \A k \in DOMAIN summaries :
       summaries[k].received + summaries[k].errors <= summaries[k].transmitted

\* C1 witness: the signal goroutine is about to print statistics that hold
\* a reply and an error, while the loop has counted the last probe as
\* transmitted and as an error
C1_Witness ==
  /\ supPc = "PrintStatistics"
  /\ stats.received >= 1 /\ stats.errors >= 1
  /\ stats.received + stats.errors = stats.transmitted
  /\ proto = protocolICMPv6

\* C2: every echo reply counted as received in the iteration of sequence
\* number n carries this run's identifier and the sequence number n
C2_SuccessAnswersCurrentProbe ==
  \A k \in Successes :
    /\ outcomes[k].data.id = OwnID
    /\ outcomes[k].data.seq = outcomes[k].seq

\* C3: once the signal goroutine has received the interrupt, the loop calls
\* sendICMPRequest no more
C3_NoSendAfterInterrupt ==
  [][SupHandling => sendLog' = sendLog]_vars

\* C4: the summary the signal goroutine prints is that of an iteration
\* boundary: every probe counted as transmitted has its outcome recorded,
\* and every reply counted as received has its latency in the sums
C4_SignalSummaryAtIterationBoundary ==
  [][(supPc = "PrintStatistics" /\ supPc' = "Exit")
       => /\ stats.transmitted = Len(outcomes)
          /\ stats.received = Cardinality(Successes)]_vars

\* C5: finalStats is never called while received is 0
C5_FinalStatsNeverWithZeroReceived == 0 \notin finalized

\* C6: when the process has exited after opening the socket, the socket
\* has been closed
C6_SocketClosedAtExit ==
  (exited # "no" /\ conn # "none") => conn = "closed"

\* C7: with both -4 and -6, resolution of any host argument returns an
\* error and no address, no handler is entered and no socket is opened
C7_BothFlagsFailResolution ==
  (Resolved /\ BothFlags)
    => /\ verified.err
       /\ verified.addr = ZeroAddr
       /\ proto = 0
       /\ conn = "none"

\* C8: after a successful resolution IsIPv6 is true exactly when the
\* address is an IPv6 address, and each handler runs with a destination of
\* its own family
C8_FamilyFlagMatchesAddress ==
  /\ (Resolved /\ ~verified.err)
       => (verified.addr.IsIPv6 <=> IsIPv6Address(verified.addr.Addr))
  /\ proto = protocolICMPv6 => IsIPv6Address(info.IP)
  /\ proto = protocolICMP => IsIPv4Address(info.IP)

\* C9: without a family flag, a hostname that resolves to both an IPv4 and
\* an IPv6 address yields an IPv4 address with IsIPv6 = false
C9_DefaultPrefersIPv4 ==
  (/\ Resolved /\ NoFlags /\ lookup.called /\ ~lookup.err
   /\ \E k \in DOMAIN lookup.ips : IsIPv4Address(lookup.ips[k])
   /\ \E k \in DOMAIN lookup.ips : IsIPv6Address(lookup.ips[k]))
    => /\ ~verified.err
       /\ IsIPv4Address(verified.addr.Addr)
       /\ ~verified.addr.IsIPv6

\* C10: without a family flag every well-formed literal address is
\* accepted, an IPv4 literal with IsIPv6 = false and an IPv6 literal with
\* IsIPv6 = true
C10_LiteralAcceptedWithoutFlags ==
  (Resolved /\ NoFlags /\ ~validateHostname(host) /\ ParseIP(host) # nil)
    => /\ ~verified.err
       /\ verified.addr.Addr = host
       /\ verified.addr.IsIPv6 = IsIPv6Address(host)

\* the loop is between two iterations, or past the last one: every
\* iteration begun has ended
AtIterationBoundary == pc \in {"Loop", "PrintStatistics", "Return", "exit"}

\* C11: at every iteration boundary the number of per-probe lines printed
\* equals transmitted: one line per attempted sequence number
C11_OneLinePerProbe ==
  AtIterationBoundary => lines = stats.transmitted

\* C11 witness: two probes done on IPv6, one that read a discovery message
\* and one that failed, two lines printed
C11_Witness ==
  /\ pc = "Loop" /\ stats.transmitted = 2 /\ lines = 2
  /\ \E k \in DOMAIN outcomes : outcomes[k].kind = "InformationalV6"
  /\ \E k \in DOMAIN outcomes : outcomes[k].kind = "Error"

\* the probe loop has run to its end
LoopCompleted ==
  pc \in {"PrintStatistics", "Return"} \/ (pc = "exit" /\ conn = "closed")

\* C12 as stated: when the probe loop has completed, transmitted equals the
\* configured count, whatever the value of the -c flag
C12_TransmittedEqualsCount ==
  LoopCompleted => stats.transmitted = cntFlag

\* C12 amended: when the probe loop has completed, transmitted equals the
\* configured count if that is not negative, and 0 if it is negative
C12_TransmittedEqualsCountOrZero ==
  LoopCompleted =>
    stats.transmitted = (IF cntFlag >= 0 THEN cntFlag ELSE 0)

\* C12 witness: the loop has completed a run of the largest count and the
\* process has ended
C12_Witness ==
  /\ pc = "exit" /\ conn = "closed" /\ exited = "0"
  /\ cntFlag = MaxCnt /\ stats.transmitted = MaxCnt
  /\ stats.received >= 1

\* the iterations that ended with an IPv6 discovery message
Informationals == {k \in DOMAIN outcomes : outcomes[k].kind = "InformationalV6"}

\* C13: at every iteration boundary received + errors equals transmitted
\* minus the number of probes that ended with an IPv6 discovery message;
\* in the IPv4 handler received + errors equals transmitted
C13_CountersBalanceUpToInformational ==
  AtIterationBoundary =>
    /\ stats.received + stats.errors
         = stats.transmitted - Cardinality(Informationals)
    /\ proto = protocolICMP => stats.received + stats.errors = stats.transmitted

\* C13 witness: an IPv6 run at a boundary after a discovery message and an
\* echo reply: two transmitted, one received, no error
C13_Witness ==
  /\ proto = protocolICMPv6 /\ pc = "Loop"
  /\ Cardinality(Informationals) = 1
  /\ stats.transmitted = 2 /\ stats.received = 1 /\ stats.errors = 0

\* the iterations that were counted as errors
Failures == {k \in DOMAIN outcomes : outcomes[k].kind = "Error"}

\* C14: an IPv6 discovery message increments neither errors nor received,
\* and the summary of a run whose probes all ended in a Success or in a
\* discovery message reports 0.0% packet loss
C14_InformationalNotCountedAsLoss ==
  /\ AtIterationBoundary =>
       /\ stats.received = Cardinality(Successes)
       /\ stats.errors = Cardinality(Failures)
  /\ \A k \in DOMAIN summaries :
       (/\ summaries[k].by = "loop"
        /\ \A j \in DOMAIN outcomes :
             outcomes[j].kind \in {"Success", "InformationalV6"})
         => summaries[k].loss = <<0, 1>>

\* the round-trip times of the iterations counted as received
RECURSIVE SumOfTimes(_)
SumOfTimes(S) ==
  IF S = {} THEN 0
  ELSE LET k == CHOOSE x \in S : TRUE IN outcomes[k].time + SumOfTimes(S \ {k})

SuccessTimes == {outcomes[k].time : k \in Successes}
MinOf(S) == CHOOSE x \in S : \A y \in S : x <= y
MaxOf(S) == CHOOSE x \in S : \A y \in S : x >= y

\* the statistics after a list of probes, each an echo reply with its time
\* or a timeout, counted the way the loop counts them
RECURSIVE StatsAfter(_, _)
StatsAfter(st, probes) ==
  IF probes = <<>> THEN st
  ELSE LET sent == [st EXCEPT !.transmitted = @ + 1]
           p == Head(probes)
           done == IF p.reply
                   THEN iterativeStats(printICMPResponseCount("Success", sent), p.ms)
                   ELSE printReadError("timeout", sent)
       IN StatsAfter(done, Tail(probes))

\* replies after 10, 20 ms, a timeout, replies after 30, 40 ms
ExampleProbes ==
  <<[reply |-> TRUE, ms |-> 10], [reply |-> TRUE, ms |-> 20],
    [reply |-> FALSE, ms |-> 0],
    [reply |-> TRUE, ms |-> 30], [reply |-> TRUE, ms |-> 40]>>

ExampleHolds(isIPv6) ==
  LET st == finalStats(StatsAfter(HandlerStats(isIPv6), ExampleProbes)) IN
    /\ st.transmitted = 5 /\ st.received = 4 /\ st.errors = 1
    /\ st.min = 10 /\ st.max = 40 /\ st.mean = <<25, 1>>

\* a fact of the operators alone, the same in every state: it is evaluated
\* in the states where a handler starts
ExampleHoldsInBothHandlers == ExampleHolds(FALSE) /\ ExampleHolds(TRUE)

\* C15: at every iteration boundary, in either handler, received is the
\* number of Success outcomes, errors the number of failures that are not
\* discovery messages, min and max the least and the greatest Success
\* latency and sum1 their sum; the mean of the loop's summary is that sum
\* over received; latencies 10, 20, timeout, 30, 40 give 5 transmitted,
\* 4 received, 1 error, min 10, max 40, mean 25
C15_StatisticsMatchOutcomes ==
  /\ AtIterationBoundary =>
       /\ stats.received = Cardinality(Successes)
       /\ stats.errors = Cardinality(Failures)
       /\ stats.sum1 = SumOfTimes(Successes)
       /\ Successes # {} =>
            /\ stats.min = MinOf(SuccessTimes)
            /\ stats.max = MaxOf(SuccessTimes)
  /\ \A k \in DOMAIN summaries :
       (summaries[k].by = "loop" /\ summaries[k].roundTrip) =>
         /\ summaries[k].mean[1] * Cardinality(Successes)
              = SumOfTimes(Successes) * summaries[k].mean[2]
         /\ summaries[k].min = MinOf(SuccessTimes)
         /\ summaries[k].max = MaxOf(SuccessTimes)
  /\ pc = "getInterface" => ExampleHoldsInBothHandlers

\* C15 witness: an IPv6 run (min starts at -1) at a boundary after replies
\* of 20 ms and then 10 ms
C15_Witness ==
  /\ proto = protocolICMPv6 /\ pc = "Loop"
  /\ Len(outcomes) = 2
  /\ outcomes[1].kind = "Success" /\ outcomes[1].time = 20
  /\ outcomes[2].kind = "Success" /\ outcomes[2].time = 10
  /\ stats.min = 10 /\ stats.max = 20 /\ stats.sum1 = 30

(***************************************************************************)
(* The summary after the loop, for every count the -c flag can hold        *)
(***************************************************************************)
\* the largest value of the int8 flag -c
MaxInt8 == 127

\* t probes of which the first r were answered, after 10 and 20 ms in turn
ProbesOf(t, r) ==
  [k \in 1 .. t |-> [reply |-> k <= r, ms |-> IF k % 2 = 1 THEN 10 ELSE 20]]

\* the statistics the loop has gathered over ProbesOf(t, r)
StatsOfProbes(isIPv6, t, r) ==
  LET odd == (r + 1) \div 2
      even == r \div 2
  IN [HandlerStats(isIPv6) EXCEPT
        !.transmitted = t, !.received = r, !.errors = t - r,
        !.min = IF r = 0 THEN @ ELSE 10,
        !.max = IF r = 0 THEN 0 ELSE IF r = 1 THEN 10 ELSE 20,
        !.sum1 = 10 * odd + 20 * even,
        !.sum2 = 100 * odd + 400 * even]

\* the loop of a handler has ended after t probes, r of them answered, the
\* others timed out: the state after its stats.finalStats()
InitStats ==
  \E t \in 0 .. MaxInt8 : \E r \in 0 .. t :
    LET probes == ProbesOf(t, r) IN
      /\ \E run \in HandlerRuns :
           /\ host = run.host
           /\ options = run.options
           /\ lookup = NoLookup
           /\ verified = AddrResolution(run.host, run.options, NoLookup)
      /\ cntFlag = t
      /\ info = ICMPInfo(verified.addr.Addr, cntFlag)
      /\ proto = HandlerProto(verified.addr.IsIPv6)
      /\ stats = finalStats(StatsOfProbes(verified.addr.IsIPv6, t, r))
      /\ pc = "PrintStatistics"
      /\ i = t
      /\ conn = "open"
      /\ reply = NoReply
      /\ elapsedMs = 0
      /\ supPc = "waiting"
      /\ c = 0
      /\ exited = "no"
      /\ wire = {k \in 0 .. t - 1 : ~probes[k + 1].reply}
      /\ sockbuf = <<>>
      /\ strays = 0
      /\ sendLog = [k \in 1 .. t |-> k - 1]
      /\ outcomes = [k \in 1 .. t |->
           Outcome(k - 1, IF probes[k].reply THEN "Success" ELSE "Timeout",
                   EchoReplyTo(proto, constructMarshalledMessage(
                     IF proto = protocolICMP THEN ipv4ICMPTypeEcho
                                             ELSE ipv6ICMPTypeEchoRequest, k - 1)),
                   probes[k].ms)]
      /\ lines = t
      /\ summaries = <<>>
      /\ finalized = {r}

NextStats == HandlerPrintStatistics \/ HandlerReturn

SpecStats == InitStats /\ [][NextStats]_vars

\* C16: the loss percentage of a summary is 0 when transmitted is 0 and
\* otherwise (transmitted - received) / transmitted * 100; it lies between
\* 0 and 100 and is 0 exactly when received equals transmitted, as a value
\* and as printed with one decimal
C16_LossPercentage ==
  \A k \in DOMAIN summaries :
    LET s == summaries[k]
        t == s.transmitted
        r == s.received
    IN /\ t = 0 => (s.loss = <<0, 1>> /\ s.lossTenths = 0)
       /\ t > 0 =>
            /\ s.loss[2] > 0
            /\ s.loss[1] * t = (t - r) * 100 * s.loss[2]
            /\ 0 <= s.loss[1] /\ s.loss[1] <= 100 * s.loss[2]
            /\ (s.loss[1] = 0) <=> (r = t)
            /\ 0 <= s.lossTenths /\ s.lossTenths <= 1000
            /\ (s.lossTenths = 0) <=> (r = t)
            /\ LET d == s.lossTenths * s.loss[2] - 10 * s.loss[1] IN
                 2 * Abs(d) <= s.loss[2]

\* C16 witness: the summary of 127 probes with one reply lost: 0.8% loss
C16_Witness ==
  /\ Len(summaries) = 1
  /\ summaries[1].transmitted = MaxInt8
  /\ summaries[1].received = MaxInt8 - 1
  /\ summaries[1].lossTenths = 8

\* a step of the loop that settles a probe as a failure: the marshal or the
\* send failed, the read timed out or failed, or printICMPResponse took a
\* branch other than the echo reply's and the IPv6 discovery messages'
FailureStep ==
  \/ pc \in {"Marshal", "Send", "Recv"} /\ pc' = "Loop"
  \/ /\ pc = "printICMPResponse" /\ pc' = "Sleep"
     /\ Classify(proto, reply) # "InformationalV6"

\* C17: a failure of one probe (marshal or send failure, read timeout or
\* error, undecodable bytes, a reply of another type) adds exactly one to
\* errors, leaves transmitted, received, min, max and the two sums as they
\* were, records the probe as an error, and the loop goes on: it is not left,
\* and its next iteration has the next sequence number
C17_FailureCountsOnceAndLoopContinues ==
  [][/\ FailureStep =>
          /\ stats'.errors = stats.errors + 1
          /\ stats'.transmitted = stats.transmitted
          /\ stats'.received = stats.received
          /\ stats'.min = stats.min /\ stats'.max = stats.max
          /\ stats'.sum1 = stats.sum1 /\ stats'.sum2 = stats.sum2
          /\ outcomes' = Append(outcomes, [seq |-> i, kind |-> "Error",
                                           data |-> NoReply, time |-> 0])
          /\ exited' = "no"
          /\ pc' = "Loop" => i' = i + 1
     /\ (pc = "Sleep" /\ pc' # "Sleep") => (pc' = "Loop" /\ i' = i + 1)
     /\ (pc = "Loop" /\ pc' # "Loop" /\ i < info.CNT) =>
          (pc' = "Marshal" /\ i' = i /\ Len(outcomes) = i)]_vars

\* C17 witness: two probes were sent and both failed; both are counted as
\* errors and the loop has come to its end
C17_Witness ==
  /\ pc = "Loop" /\ i = 2 /\ info.CNT = 2
  /\ stats.errors = 2 /\ stats.received = 0
  /\ Len(outcomes) = 2
  /\ outcomes[1].kind = "Error" /\ outcomes[2].kind = "Error"
  /\ Len(sendLog) = 2

\* the loop's summary of a run of as many probes as were asked for
LoopSummaryPrinted ==
  /\ Len(summaries) = 1
  /\ summaries[1].by = "loop"
  /\ summaries[1].transmitted = (IF info.CNT < 0 THEN 0 ELSE info.CNT)

\* C18: without a signal, whatever the network does, the run ends; the loop
\* never stays in its read, and once it is entered it comes to the summary
\* after the last probe and the handler returns
C18_RunWithoutInterruptTerminates ==
  /\ <>(exited # "no")
  /\ [](pc = "Recv" => <>(pc # "Recv"))
  /\ [](pc = "Loop" => <>(exited = "0" /\ LoopSummaryPrinted))

\* C18 witness: two probes were sent, the reply to each was lost, each read
\* ran into its deadline, and the run has ended with the summary
C18_Witness ==
  /\ exited = "0" /\ LoopSummaryPrinted
  /\ info.CNT = 2 /\ sendLog = <<0, 1>>
  /\ wire = {0, 1} /\ strays = 0
  /\ summaries[1].received = 0 /\ summaries[1].errors = 2
  /\ c = 0

\* the sequence numbers of the probes whose outcome is recorded
Settled == {outcomes[k].seq : k \in DOMAIN outcomes}

\* the sequence numbers sent whose outcome is still to come
Awaiting == {sendLog[k] : k \in DOMAIN sendLog} \ Settled

\* C19: the requests go out in strictly increasing order of sequence
\* number, a request is sent only when every earlier sequence number has its
\* outcome recorded, and at most one request awaits its outcome, the one of
\* the iteration that is reading
C19_ProbesOrderedNotOverlapping ==
  /\ [](/\ \A k, l \in DOMAIN sendLog : k < l => sendLog[k] < sendLog[l]
        /\ Cardinality(Awaiting) <= 1
        /\ Awaiting # {} =>
             (Awaiting = {i} /\ pc \in {"Recv", "printICMPResponse", "iterativeStats"}))
  /\ [][Len(sendLog') > Len(sendLog) =>
          /\ sendLog' = Append(sendLog, i)
          /\ Awaiting = {}
          /\ Settled = 0 .. i - 1]_vars

\* C19 witness: the second request awaits its reply, the first probe has its
\* outcome
C19_Witness ==
  /\ pc = "Recv" /\ i = 1
  /\ sendLog = <<0, 1>>
  /\ Settled = {0} /\ Awaiting = {1}

\* C20: whenever the outcome of a request that was sent, and is not the
\* last, is recorded, the loop goes to its sleep of one interval before it
\* sends the next request, whatever the outcome
C20_SleepBetweenProbes ==
  [][(/\ Len(outcomes') > Len(outcomes)
      /\ pc \in {"Send", "Recv", "printICMPResponse", "iterativeStats"}
      /\ i + 1 < info.CNT) => pc' = "Sleep"]_vars

\* the sequence numbers whose iteration ended as an error
FailedSeqs == {outcomes[k].seq : k \in Failures}

\* C21: the sequence numbers sent are strictly increasing, so none is sent
\* twice; they are those of the iterations 0, 1, 2, ... in order, the k-th
\* send carrying k - 1 unless an earlier iteration ended before its send;
\* and a send never carries a sequence number that already has an outcome,
\* a failure in particular
C21_SequenceNumbersSentOnceInOrder ==
  /\ [](/\ \A k, l \in DOMAIN sendLog : k < l => sendLog[k] < sendLog[l]
        /\ \A k \in DOMAIN sendLog :
             /\ 0 <= sendLog[k] /\ sendLog[k] < info.CNT
             /\ sendLog[k] >= k - 1
             /\ \A n \in 0 .. sendLog[k] - 1 :
                  n \in {sendLog[l] : l \in 1 .. k - 1} \/ n \in FailedSeqs)
  /\ [][Len(sendLog') > Len(sendLog) =>
          /\ Len(sendLog') = Len(sendLog) + 1
          /\ sendLog'[Len(sendLog')] \notin Settled
          /\ \A n \in FailedSeqs : sendLog'[Len(sendLog')] > n]_vars

\* C21 witness: sequence number 0 was sent and ended as an error, and the
\* next request sent carries 1: 0 is not sent again
C21_Witness ==
  /\ sendLog = <<0, 1>>
  /\ pc = "Recv" /\ i = 1
  /\ FailedSeqs = {0}
  /\ stats.errors = 1 /\ stats.transmitted = 2

\* a step in which sendICMPRequest is called and returns an error: the
\* request is in the send log and not on the wire
SendFails == Len(sendLog') > Len(sendLog) /\ i \notin wire'

\* a step in which recvICMPRequest returns, with a datagram or an error
ReceiveReturns == pc = "Recv" /\ pc' \in {"printICMPResponse", "Loop"}

\* C22: a failed send ends its iteration at once: errors is incremented by
\* one, the iteration is recorded as an error, nothing is read from the
\* socket and the loop is at its next sequence number; and every receive is
\* that of an iteration whose own request went out and has no outcome yet
C22_NoReceiveAfterFailedSend ==
  /\ [](pc = "Recv" =>
          /\ sendLog # <<>> /\ sendLog[Len(sendLog)] = i
          /\ i \notin Settled)
  /\ [][/\ SendFails =>
             /\ pc' = "Loop" /\ i' = i + 1
             /\ stats'.errors = stats.errors + 1
             /\ stats'.received = stats.received
             /\ outcomes' = Append(outcomes, [seq |-> i, kind |-> "Error",
                                              data |-> NoReply, time |-> 0])
             /\ sockbuf' = sockbuf /\ reply' = reply
        /\ ReceiveReturns =>
             /\ i \notin FailedSeqs
             /\ \A n \in FailedSeqs : n < i]_vars

\* C22 witness: the send of sequence number 0 failed (its request never was
\* on the wire: the one datagram that has come is a stray one, still unread
\* in the socket), and the read now under way is that of sequence number 1
C22_Witness ==
  /\ pc = "Recv" /\ i = 1
  /\ sendLog = <<0, 1>> /\ wire = {1}
  /\ FailedSeqs = {0} /\ stats.errors = 1
  /\ strays = 1 /\ Len(sockbuf) = 1 /\ sockbuf[1] \in Strays(proto)

\* C23: in every run at most one statistics summary is printed, whether by
\* the loop after its last probe or by the signal goroutine
C23_SummaryPrintedAtMostOnce == Len(summaries) <= 1

====
